---- MODULE Spec2Model ----
(***************************************************************************)
(* A model of the SM2335EGH LED-controller driver (src/src/lib.rs).        *)
(*                                                                         *)
(* The driver owns two output pins (data, clk) and two 4-bit power levels. *)
(* write() builds a 12-byte frame (Msg) and write_msg() bit-bangs it, one  *)
(* pin operation at a time.  Every pin operation returns a Result that the *)
(* driver converts with .ok() and drops.                                   *)
(*                                                                         *)
(* Two specifications:                                                     *)
(*   SpecEnc  the frame encoder (lines 100-119) as a pure function of the  *)
(*            channel values and the stored power levels;                  *)
(*   Spec     the whole driver: init, set_power_levels, write,             *)
(*            write_normalized, with write_msg stepped one pin operation   *)
(*            at a time and each pin operation free to fail.               *)
(***************************************************************************)
EXTENDS Integers, Sequences, FiniteSets, TLC

VARIABLES
    data,             \* logic level of the data pin (TRUE = high)
    clk,              \* logic level of the clock pin
    rgb_power_level,  \* Sm2335Egh.rgb_power_level
    cw_power_level,   \* Sm2335Egh.cw_power_level
    pc,               \* position of the driver's single thread of control
    channel_values,   \* argument of the current (or last) write
    msg,              \* the Msg of the current (or last) write
    byteIdx,          \* write_msg: index of `byte` in msg.0
    bitIdx,           \* write_msg: `i` of the inner loop
    last_call,        \* the public operation called last, with its arguments
    ret,              \* how the last operation ended: "pending", "unit", "err"
    nops,             \* pin operations issued since the last init or write began
    lastOp,           \* the pin operation issued last
    nfail,            \* how many of those nops pin operations failed
    everFailed,       \* some pin operation since construction began failed
    nsamples,         \* rising clock edges seen by a receiver in this operation
    lastSample,       \* data level the receiver sampled at the last rising edge
    clkLowIssued,     \* clk.set_low was issued and no clk.set_high since
    npairs,           \* clk.set_low / clk.set_high pairs issued in this operation
    prev_addr,        \* address byte of the write before this one (0: none)
    configured        \* set_power_levels has been called

vars == <<data, clk, rgb_power_level, cw_power_level, pc, channel_values, msg,
          byteIdx, bitIdx, last_call, ret, nops, lastOp, nfail, everFailed,
          nsamples, lastSample, clkLowIssued, npairs, prev_addr, configured>>

(***************************************************************************)
(* Program constants.                                                      *)
(***************************************************************************)
ADDR_STANDBY == 192

ADDR_START_3CH == 200

ADDR_START_2CH == 208

ADDR_START_5CH == 216

BIT_DEPTH == 10

MSG_LEN == 12

DEFAULT_RGB_LEVEL == 2

\* mutant: the cw default is the rgb default
DEFAULT_CW_LEVEL_AsRgb == DEFAULT_RGB_LEVEL

DEFAULT_CW_LEVEL == 4

(***************************************************************************)
(* Fixed-width integer operations of the source.                           *)
(***************************************************************************)
RECURSIVE BitAnd(_, _)
BitAnd(a, b) ==
    IF a = 0 \/ b = 0 THEN 0
    ELSE (a % 2) * (b % 2) + 2 * BitAnd(a \div 2, b \div 2)

RECURSIVE BitOr(_, _)
BitOr(a, b) ==
    IF a = 0 THEN b
    ELSE IF b = 0 THEN a
    ELSE (IF a % 2 = 1 \/ b % 2 = 1 THEN 1 ELSE 0) + 2 * BitOr(a \div 2, b \div 2)

Shl8(a, n) == (a * (2 ^ n)) % 256

Shr(a, n) == a \div (2 ^ n)

MinU16(a, b) == IF a < b THEN a ELSE b

\* mutant: little-endian byte order
ToBeBytes_Le(v) == <<v % 256, v \div 256>>

ToBeBytes(v) == <<v \div 256, v % 256>>

(***************************************************************************)
(* Msg: a function 0..11 -> u8, indexed as in the source.                  *)
(***************************************************************************)
Msg_zeroed == [k \in 0 .. (MSG_LEN - 1) |-> 0]

\* mutant: the address starts at the second output (offset 1)
Msg_set_addr_Offset1(m, addr) == [m EXCEPT ![0] = addr + 1]

\* mutant: the address is written with the reserved bit set
Msg_set_addr_Reserved(m, addr) == [m EXCEPT ![0] = BitOr(addr, 32)]

Msg_set_addr(m, addr) == [m EXCEPT ![0] = addr]

Msg_set_rgb_power_level(m, lvl) ==
    [m EXCEPT ![1] = BitOr(Shl8(lvl, 4), BitAnd(m[1], 15))]

\* mutant: the cw nibble overwrites the whole byte
Msg_set_cw_power_level_Clobber(m, lvl) == [m EXCEPT ![1] = BitAnd(lvl, 15)]

Msg_set_cw_power_level(m, lvl) ==
    [m EXCEPT ![1] = BitOr(BitAnd(m[1], 240), BitAnd(lvl, 15))]

\* vals is the Rust array as a 5-tuple: vals[i + 1] is channel i.
\* mutant: no clamp before the value is packed
ClampChannel_None(val) == val

ClampChannel(val) == MinU16(val, (2 ^ BIT_DEPTH) - 1)

Msg_set_channel_values(m, vals) ==
    [k \in 0 .. (MSG_LEN - 1) |->
        IF k >= 2
        THEN ToBeBytes(ClampChannel(vals[((k - 2) \div 2) + 1]))[((k - 2) % 2) + 1]
        ELSE m[k]]

(***************************************************************************)
(* write, lines 100-119: the frame built from the argument and the stored  *)
(* power levels.                                                           *)
(***************************************************************************)
MatchStandby(v) == v[1] = 0 /\ v[2] = 0 /\ v[3] = 0 /\ v[4] = 0 /\ v[5] = 0

\* mutant: the 3-channel arm looks at the last value only
Match3Ch_LastOnly(v) == v[5] = 0

Match3Ch(v) == v[4] = 0 /\ v[5] = 0

Match2Ch(v) == v[1] = 0 /\ v[2] = 0 /\ v[3] = 0

BuildFrame(v, rgb, cw) ==
    LET m0 == Msg_set_channel_values(Msg_zeroed, v)
    IN  IF MatchStandby(v) THEN Msg_set_addr(m0, ADDR_STANDBY)
        ELSE IF Match3Ch(v)
             THEN Msg_set_rgb_power_level(Msg_set_addr(m0, ADDR_START_3CH), rgb)
        ELSE IF Match2Ch(v)
             THEN Msg_set_cw_power_level(Msg_set_addr(m0, ADDR_START_2CH), cw)
        ELSE Msg_set_cw_power_level(
                 Msg_set_rgb_power_level(Msg_set_addr(m0, ADDR_START_5CH), rgb), cw)

(***************************************************************************)
(* write_normalized, line 71.  An f32 argument is a finite dyadic rational *)
(* <<n, d>> (value n/d, d a power of two), so the product with 1024.0 is   *)
(* exact; `as u16` truncates toward zero and saturates to 0..65535.        *)
(***************************************************************************)
TruncDiv(n, d) == IF n >= 0 THEN n \div d ELSE -((-n) \div d)

\* mutant: the cast wraps modulo 2^16 instead of saturating
SaturateU16_Wrap(t) == t % 65536

SaturateU16(t) == IF t < 0 THEN 0 ELSE IF t > 65535 THEN 65535 ELSE t

\* mutant: scaled by 2^BIT_DEPTH - 1
F32ToU16_Scale1023(x) == SaturateU16(TruncDiv(x[1] * ((2 ^ BIT_DEPTH) - 1), x[2]))

F32ToU16(x) == SaturateU16(TruncDiv(x[1] * (2 ^ BIT_DEPTH), x[2]))

NormalizedToChannels(xs) == [i \in 1 .. 5 |-> F32ToU16(xs[i])]

(***************************************************************************)
(* Inputs of the model.                                                    *)
(***************************************************************************)
\* u8 arguments of set_power_levels
LevelInputs == {<<0, 0>>, <<31, 44>>, <<255, 16>>}

\* arguments of write, one or more per match arm
WriteInputs ==
    { <<0, 0, 0, 0, 0>>,
      <<1023, 0, 800, 0, 0>>,
      <<0, 0, 0, 1024, 1>>,
      <<2000, 0, 0, 0, 256>> }

\* arguments of write_normalized
NormalizedInputs ==
    { << <<1, 2>>, <<0, 1>>, <<1, 2048>>, <<0, 1>>, <<0, 1>> >>,
      << <<0, 1>>, <<0, 1>>, <<0, 1>>, <<-1, 2>>, <<3, 2>> >>,
      << <<1023, 1024>>, <<3, 2048>>, <<2047, 2048>>, <<1, 1024>>, <<0, 1>> >> }

\* pin operations that may fail within one init or write
MaxFail == 2

\* channel values and stored levels the encoder is applied to under SpecEnc
EncVals == {0, 1, 800, 1023, 1024, 2000}

EncLevels == {0, 2, 4, 12, 15}

(***************************************************************************)
(* Pin operations.  An OutputPin operation either takes effect and returns *)
(* Ok, or fails: it returns Err and leaves the level as it was.            *)
(***************************************************************************)
Op(pin, level) == [pin |-> pin, level |-> level]

NoOp == [pin |-> "none", level |-> FALSE]

\* `.ok()` turns the Result into an Option that is dropped: control goes on
\* whatever the pin reported.
\* mutant: a failed pin operation is propagated (`?` instead of `.ok()`)
OnResult_Propagate(ok) == IF ok THEN "continue" ELSE "abort"

OnResult(ok) == "continue"

SetLine(op, ok) ==
    /\ lastOp' = op
    /\ nops' = nops + 1
    /\ data' = IF op.pin = "data" /\ ok THEN op.level ELSE data
    /\ clk' = IF op.pin = "clk" /\ ok THEN op.level ELSE clk
    /\ ok \/ nfail < MaxFail
    /\ nfail' = IF ok THEN nfail ELSE nfail + 1
    /\ everFailed' = (everFailed \/ ~ok)
    \* the receiver samples data on a rising clock edge
    /\ IF ~clk /\ clk'
       THEN nsamples' = nsamples + 1 /\ lastSample' = data
       ELSE UNCHANGED <<nsamples, lastSample>>
    /\ clkLowIssued' = IF op.pin = "clk" THEN ~op.level ELSE clkLowIssued
    /\ npairs' = IF op.pin = "clk" /\ op.level /\ clkLowIssued
                 THEN npairs + 1 ELSE npairs

\* control after a pin operation: on to (p, b, i), or out with the error
Goto(ok, p, b, i) ==
    IF OnResult(ok) = "continue"
    THEN /\ pc' = p
         /\ byteIdx' = b
         /\ bitIdx' = i
         /\ ret' = IF p = "idle" THEN "unit" ELSE ret
    ELSE /\ pc' = IF pc \in {"init_data", "init_clk"} THEN "dead" ELSE "idle"
         /\ ret' = "err"
         /\ UNCHANGED <<byteIdx, bitIdx>>

(***************************************************************************)
(* init, lines 36-40.                                                      *)
(***************************************************************************)
InitDataOp == Op("data", TRUE)

InitClkOp == Op("clk", TRUE)

Init ==
    /\ data \in BOOLEAN
    /\ clk \in BOOLEAN
    /\ rgb_power_level = 0
    /\ cw_power_level = 0
    /\ pc = "init_data"
    /\ channel_values = <<0, 0, 0, 0, 0>>
    /\ msg = Msg_zeroed
    /\ byteIdx = 0
    /\ bitIdx = 0
    /\ last_call = [op |-> "init", args |-> <<>>]
    /\ ret = "pending"
    /\ nops = 0
    /\ lastOp = NoOp
    /\ nfail = 0
    /\ everFailed = FALSE
    /\ nsamples = 0
    /\ lastSample = FALSE
    /\ clkLowIssued = FALSE
    /\ npairs = 0
    /\ prev_addr = 0
    /\ configured = FALSE

InitDataHigh ==
    /\ pc = "init_data"
    /\ \E ok \in BOOLEAN :
        /\ SetLine(InitDataOp, ok)
        /\ Goto(ok, "init_clk", 0, 0)
    /\ UNCHANGED <<rgb_power_level, cw_power_level, channel_values, msg, last_call,
                   prev_addr, configured>>

InitClkHigh ==
    /\ pc = "init_clk"
    /\ \E ok \in BOOLEAN :
        /\ SetLine(InitClkOp, ok)
        /\ Goto(ok, "idle", 0, 0)
        /\ IF OnResult(ok) = "continue"
           THEN /\ rgb_power_level' = DEFAULT_RGB_LEVEL
                /\ cw_power_level' = DEFAULT_CW_LEVEL
           ELSE UNCHANGED <<rgb_power_level, cw_power_level>>
    /\ UNCHANGED <<channel_values, msg, last_call, prev_addr, configured>>

(***************************************************************************)
(* set_power_levels, lines 62-65.                                          *)
(***************************************************************************)
\* mutant: the level is stored unmasked
MaskLevel_None(level) == level

MaskLevel(level) == BitAnd(level, 15)

\* mutant: the two arguments are stored in each other's field
SetPowerLevels_Swapped(rgb_level, cw_level) ==
    /\ pc = "idle"
    /\ rgb_power_level' = BitAnd(cw_level, 15)
    /\ cw_power_level' = BitAnd(rgb_level, 15)
    /\ last_call' = [op |-> "set_power_levels", args |-> <<rgb_level, cw_level>>]
    /\ ret' = "unit"
    /\ configured' = TRUE
    /\ UNCHANGED <<data, clk, pc, channel_values, msg, byteIdx, bitIdx, nops,
                   lastOp, nfail, everFailed, nsamples, lastSample, clkLowIssued,
                   npairs, prev_addr>>

SetPowerLevels(rgb_level, cw_level) ==
    /\ pc = "idle"
    /\ rgb_power_level' = MaskLevel(rgb_level)
    /\ cw_power_level' = MaskLevel(cw_level)
    /\ last_call' = [op |-> "set_power_levels", args |-> <<rgb_level, cw_level>>]
    /\ ret' = "unit"
    /\ configured' = TRUE
    /\ UNCHANGED <<data, clk, pc, channel_values, msg, byteIdx, bitIdx, nops,
                   lastOp, nfail, everFailed, nsamples, lastSample, clkLowIssued,
                   npairs, prev_addr>>

(***************************************************************************)
(* write, lines 99-121, up to the call of write_msg.                       *)
(***************************************************************************)
\* mutant: the Msg buffer is reused and its power-level byte is not cleared
EnterWrite_Stale(name, args, v) ==
    /\ pc = "idle"
    /\ channel_values' = v
    /\ msg' = [BuildFrame(v, rgb_power_level, cw_power_level)
                  EXCEPT ![1] = BitOr(@, msg[1])]
    /\ last_call' = [op |-> name, args |-> args]
    /\ pc' = "start"
    /\ ret' = "pending"
    /\ byteIdx' = 0
    /\ bitIdx' = 0
    /\ nops' = 0
    /\ lastOp' = NoOp
    /\ nfail' = 0
    /\ nsamples' = 0
    /\ lastSample' = FALSE
    /\ npairs' = 0
    /\ prev_addr' = msg[0]
    /\ UNCHANGED <<data, clk, rgb_power_level, cw_power_level, everFailed,
                   clkLowIssued, configured>>

EnterWrite(name, args, v) ==
    /\ pc = "idle"
    /\ channel_values' = v
    /\ msg' = BuildFrame(v, rgb_power_level, cw_power_level)
    /\ last_call' = [op |-> name, args |-> args]
    /\ pc' = "start"
    /\ ret' = "pending"
    /\ byteIdx' = 0
    /\ bitIdx' = 0
    /\ nops' = 0
    /\ lastOp' = NoOp
    /\ nfail' = 0
    /\ nsamples' = 0
    /\ lastSample' = FALSE
    /\ npairs' = 0
    /\ prev_addr' = msg[0]
    /\ UNCHANGED <<data, clk, rgb_power_level, cw_power_level, everFailed,
                   clkLowIssued, configured>>

Write(v) == EnterWrite("write", v, v)

WriteNormalized(xs) == EnterWrite("write_normalized", xs, NormalizedToChannels(xs))

(***************************************************************************)
(* write_msg, lines 123-139, one pin operation per step.                   *)
(***************************************************************************)
\* mutant: least significant bit first
BitOf_LsbFirst(byte, i) == BitAnd(Shr(byte, 7 - i), 1) = 1

BitOf(byte, i) == BitAnd(Shr(byte, i), 1) = 1

StartOp == Op("data", FALSE)

\* mutant: the clock is not taken low before a data bit
BitClkLowOp_High == Op("clk", TRUE)

BitClkLowOp == Op("clk", FALSE)

BitDataOp == Op("data", BitOf(msg[byteIdx], bitIdx))

BitClkHighOp == Op("clk", TRUE)

TrailerClkLowOp == Op("clk", FALSE)

\* mutant: the trailer holds data low
TrailerDataOp_Low == Op("data", FALSE)

TrailerDataOp == Op("data", TRUE)

TrailerClkHighOp == Op("clk", TRUE)

StopClkLowOp == Op("clk", FALSE)

\* mutant: the stop condition leaves the clock low
StopClkHighOp_Low == Op("clk", FALSE)

StopClkHighOp == Op("clk", TRUE)

StopDataOp == Op("data", TRUE)

\* (0..8).rev(): the first value of i, and whether another follows
FirstBit == 7

MoreBits(i) == i > 0

\* mutant: the byte loop stops one byte early
MoreBytes_Short(b) == b + 2 < MSG_LEN

MoreBytes(b) == b + 1 < MSG_LEN

\* mutant: the write resets the rgb level when it returns
WriteMsgStep_ClearsLevel(at, op, p, b, i) ==
    /\ pc = at
    /\ \E ok \in BOOLEAN :
        /\ SetLine(op, ok)
        /\ Goto(ok, p, b, i)
    /\ rgb_power_level' = IF p = "idle" THEN 0 ELSE rgb_power_level
    /\ UNCHANGED <<cw_power_level, channel_values, msg, last_call,
                   prev_addr, configured>>

WriteMsgStep(at, op, p, b, i) ==
    /\ pc = at
    /\ \E ok \in BOOLEAN :
        /\ SetLine(op, ok)
        /\ Goto(ok, p, b, i)
    /\ UNCHANGED <<rgb_power_level, cw_power_level, channel_values, msg, last_call,
                   prev_addr, configured>>

StartCond == WriteMsgStep("start", StartOp, "bit_lo", 0, FirstBit)

BitClkLow == WriteMsgStep("bit_lo", BitClkLowOp, "bit_data", byteIdx, bitIdx)

BitData == WriteMsgStep("bit_data", BitDataOp, "bit_hi", byteIdx, bitIdx)

BitClkHigh ==
    IF MoreBits(bitIdx)
    THEN WriteMsgStep("bit_hi", BitClkHighOp, "bit_lo", byteIdx, bitIdx - 1)
    ELSE WriteMsgStep("bit_hi", BitClkHighOp, "tr_lo", byteIdx, bitIdx)

TrailerClkLow == WriteMsgStep("tr_lo", TrailerClkLowOp, "tr_data", byteIdx, bitIdx)

TrailerData == WriteMsgStep("tr_data", TrailerDataOp, "tr_hi", byteIdx, bitIdx)

TrailerClkHigh ==
    IF MoreBytes(byteIdx)
    THEN WriteMsgStep("tr_hi", TrailerClkHighOp, "bit_lo", byteIdx + 1, FirstBit)
    ELSE WriteMsgStep("tr_hi", TrailerClkHighOp, "stop_lo", byteIdx, bitIdx)

StopClkLow == WriteMsgStep("stop_lo", StopClkLowOp, "stop_hi", byteIdx, bitIdx)

StopClkHigh == WriteMsgStep("stop_hi", StopClkHighOp, "stop_data", byteIdx, bitIdx)

StopData == WriteMsgStep("stop_data", StopDataOp, "idle", byteIdx, bitIdx)

WriteMsg ==
    \/ StartCond
    \/ BitClkLow
    \/ BitData
    \/ BitClkHigh
    \/ TrailerClkLow
    \/ TrailerData
    \/ TrailerClkHigh
    \/ StopClkLow
    \/ StopClkHigh
    \/ StopData

Next ==
    \/ InitDataHigh
    \/ InitClkHigh
    \/ \E l \in LevelInputs : SetPowerLevels(l[1], l[2])
    \/ \E v \in WriteInputs : Write(v)
    \/ \E xs \in NormalizedInputs : WriteNormalized(xs)
    \/ WriteMsg

Spec == Init /\ [][Next]_vars

\* write_msg has no await and no blocking call: once entered it keeps running.
SpecLive == Spec /\ WF_vars(WriteMsg)

(***************************************************************************)
(* The encoder alone: every tuple over EncVals and every pair of stored    *)
(* levels over EncLevels, with the frame built in one step.                *)
(***************************************************************************)
InitEnc ==
    /\ data = TRUE
    /\ clk = TRUE
    /\ rgb_power_level \in EncLevels
    /\ cw_power_level \in EncLevels
    /\ pc = "enc"
    /\ channel_values \in [1 .. 5 -> EncVals]
    /\ msg = Msg_zeroed
    /\ byteIdx = 0
    /\ bitIdx = 0
    /\ last_call = [op |-> "init", args |-> <<>>]
    /\ ret = "pending"
    /\ nops = 0
    /\ lastOp = NoOp
    /\ nfail = 0
    /\ everFailed = FALSE
    /\ nsamples = 0
    /\ lastSample = FALSE
    /\ clkLowIssued = FALSE
    /\ npairs = 0
    /\ prev_addr = 0
    /\ configured = FALSE

Encode ==
    /\ pc = "enc"
    /\ msg' = BuildFrame(channel_values, rgb_power_level, cw_power_level)
    /\ pc' = "enc_done"
    /\ UNCHANGED <<data, clk, rgb_power_level, cw_power_level, channel_values,
                   byteIdx, bitIdx, last_call, ret, nops, lastOp, nfail,
                   everFailed, nsamples, lastSample, clkLowIssued, npairs,
                   prev_addr, configured>>

NextEnc == Encode

SpecEnc == InitEnc /\ [][NextEnc]_vars

(***************************************************************************)
(* write_normalized up to the frame: the conversion of line 71 and the     *)
(* encoder, applied to every 5-tuple over NormVals on a driver with the    *)
(* default levels.                                                         *)
(***************************************************************************)
NormVals ==
    { <<0, 1>>, <<1, 2048>>, <<1, 2>>, <<2047, 2048>>, <<1, 1>>, <<3, 2>>,
      <<100, 1>>, <<-1, 2048>>, <<-1, 2>> }

InitNorm ==
    /\ data = TRUE
    /\ clk = TRUE
    /\ rgb_power_level = DEFAULT_RGB_LEVEL
    /\ cw_power_level = DEFAULT_CW_LEVEL
    /\ pc = "norm"
    /\ channel_values = <<0, 0, 0, 0, 0>>
    /\ msg = Msg_zeroed
    /\ byteIdx = 0
    /\ bitIdx = 0
    /\ last_call \in {[op |-> "write_normalized", args |-> xs] :
                        xs \in [1 .. 5 -> NormVals]}
    /\ ret = "pending"
    /\ nops = 0
    /\ lastOp = NoOp
    /\ nfail = 0
    /\ everFailed = FALSE
    /\ nsamples = 0
    /\ lastSample = FALSE
    /\ clkLowIssued = FALSE
    /\ npairs = 0
    /\ prev_addr = 0
    /\ configured = FALSE

NormEncode ==
    /\ pc = "norm"
    /\ channel_values' = NormalizedToChannels(last_call.args)
    /\ msg' = BuildFrame(NormalizedToChannels(last_call.args),
                         rgb_power_level, cw_power_level)
    /\ pc' = "norm_done"
    /\ UNCHANGED <<data, clk, rgb_power_level, cw_power_level, byteIdx, bitIdx,
                   last_call, ret, nops, lastOp, nfail, everFailed, nsamples,
                   lastSample, clkLowIssued, npairs, prev_addr, configured>>

NextNorm == NormEncode

SpecNorm == InitNorm /\ [][NextNorm]_vars

(***************************************************************************)
(* Vocabulary of the properties.                                           *)
(***************************************************************************)
RgbActive(v) == v[1] # 0 \/ v[2] # 0 \/ v[3] # 0

CwActive(v) == v[4] # 0 \/ v[5] # 0

Encoded == pc = "enc_done"

InWriteCall == last_call.op \in {"write", "write_normalized"}

Returned == pc = "idle" /\ InWriteCall

\* The n-th pin operation (n = 1..328) of a write of frame m, as the wire
\* protocol lists them: start; per byte 8 x (clock low, data = bit, clock
\* high) and the trailer (clock low, data high, clock high); stop.
WireOp(m, n) ==
    IF n = 1 THEN Op("data", FALSE)
    ELSE IF n = 326 THEN Op("clk", FALSE)
    ELSE IF n = 327 THEN Op("clk", TRUE)
    ELSE IF n = 328 THEN Op("data", TRUE)
    ELSE LET k == n - 2
             b == k \div 27
             r == k % 27
         IN  IF r = 25 THEN Op("data", TRUE)
             ELSE IF r % 3 = 0 THEN Op("clk", FALSE)
             ELSE IF r % 3 = 2 THEN Op("clk", TRUE)
             ELSE Op("data", (m[b] \div (2 ^ (7 - (r \div 3)))) % 2 = 1)

\* The k-th level (k = 1..109) a receiver samples on the rising clock edges
\* of a write of frame m: per byte its 8 bits, most significant first, and
\* a high trailer; then one final high.
WireSample(m, k) ==
    IF k = 109 THEN TRUE
    ELSE LET g == (k - 1) \div 9
             j == (k - 1) % 9
         IN  IF j = 8 THEN TRUE ELSE (m[g] \div (2 ^ (7 - j))) % 2 = 1

(***************************************************************************)
(* C1: the address byte is 0b11000000 exactly when all five values are 0,  *)
(* 0b11001000 exactly when the last two are 0 and one of the first three   *)
(* is not, 0b11010000 exactly when the first three are 0 and one of the    *)
(* last two is not, 0b11011000 exactly when both groups have a nonzero     *)
(* value; exactly one of the four cases holds.                             *)
(***************************************************************************)
C1_AddressByMode ==
    Encoded =>
        LET v == channel_values
        IN  /\ msg[0] \in {192, 200, 208, 216}
            /\ (msg[0] = 192) <=> (~RgbActive(v) /\ ~CwActive(v))
            /\ (msg[0] = 200) <=> (RgbActive(v) /\ ~CwActive(v))
            /\ (msg[0] = 208) <=> (~RgbActive(v) /\ CwActive(v))
            /\ (msg[0] = 216) <=> (RgbActive(v) /\ CwActive(v))

C1_Witness ==
    /\ Encoded
    /\ channel_values = <<0, 2000, 0, 0, 1>>
    /\ msg[0] = 216

(***************************************************************************)
(* C2: the high nibble of byte 1 is the stored rgb level when one of the   *)
(* first three values is nonzero and 0 otherwise; the low nibble is the    *)
(* stored cw level when one of the last two values is nonzero and 0        *)
(* otherwise.  So byte 1 is 0 in standby, r << 4 in 3-channel mode, c in   *)
(* 2-channel mode and (r << 4) | c in 5-channel mode.                      *)
(***************************************************************************)
C2_PowerLevelByte ==
    Encoded =>
        LET v == channel_values
            r == rgb_power_level
            c == cw_power_level
        IN  /\ msg[1] \div 16 = (IF RgbActive(v) THEN r ELSE 0)
            /\ msg[1] % 16 = (IF CwActive(v) THEN c ELSE 0)
            /\ (~RgbActive(v) /\ ~CwActive(v)) => msg[1] = 0
            /\ (RgbActive(v) /\ ~CwActive(v)) => msg[1] = r * 16
            /\ (~RgbActive(v) /\ CwActive(v)) => msg[1] = c
            /\ (RgbActive(v) /\ CwActive(v)) => msg[1] = r * 16 + c

C2_Witness ==
    /\ Encoded
    /\ RgbActive(channel_values) /\ CwActive(channel_values)
    /\ rgb_power_level = 15
    /\ cw_power_level = 12
    /\ msg[1] = 252

(***************************************************************************)
(* C3: when all five values are below 1024, bytes 2..11 are their          *)
(* big-endian 16-bit packing in input order, in every mode and for every   *)
(* power-level setting.                                                    *)
(***************************************************************************)
C3_BigEndianChannels ==
    (Encoded /\ \A i \in 0 .. 4 : channel_values[i + 1] < 1024) =>
        \A i \in 0 .. 4 :
            /\ msg[2 + 2 * i] = channel_values[i + 1] \div 256
            /\ msg[3 + 2 * i] = channel_values[i + 1] % 256

C3_Witness ==
    /\ Encoded
    /\ channel_values = <<1023, 0, 800, 1, 0>>
    /\ msg[2] = 3 /\ msg[3] = 255
    /\ msg[6] = 3 /\ msg[7] = 32
    /\ msg[8] = 0 /\ msg[9] = 1

(***************************************************************************)
(* C4: the frame built from v is the frame built from v with every value   *)
(* above 1023 replaced by 1023 (address byte, power-level byte and channel *)
(* bytes); a channel given 1024 or 2000 is encoded as 1023.                *)
(***************************************************************************)
C4_Clamping ==
    Encoded =>
        LET v == channel_values
            w == [i \in 1 .. 5 |-> IF v[i] > 1023 THEN 1023 ELSE v[i]]
        IN  /\ msg = BuildFrame(w, rgb_power_level, cw_power_level)
            /\ \A i \in 0 .. 4 :
                   v[i + 1] >= 1024 => (msg[2 + 2 * i] = 3 /\ msg[3 + 2 * i] = 255)

C4_Witness ==
    /\ Encoded
    /\ channel_values = <<2000, 1024, 1023, 0, 0>>
    /\ \A k \in 2 .. 7 : msg[k] = (IF k % 2 = 0 THEN 3 ELSE 255)
    /\ msg[0] = 200

(***************************************************************************)
(* C5: every write issues its pin operations in the order of the wire      *)
(* protocol: data low; per frame byte, for each bit from the most to the   *)
(* least significant, clock low, data = bit, clock high, then clock low,   *)
(* data high, clock high; after the twelfth byte clock low, clock high,    *)
(* data high.  328 operations, and no other.                               *)
(***************************************************************************)
C5_WireOrder ==
    InWriteCall =>
        /\ nops <= 328
        /\ nops >= 1 => lastOp = WireOp(msg, nops)
        /\ (pc = "idle") <=> (nops = 328)

C5_Witness ==
    /\ Returned
    /\ nfail = 0
    /\ channel_values = <<1023, 0, 800, 0, 0>>
    /\ nops = 328
    /\ lastOp = Op("data", TRUE)

(***************************************************************************)
(* C6: when every pin operation of a write takes effect, a receiver that   *)
(* samples data on each rising clock edge sees, per frame byte, its 8      *)
(* bits, most significant first, then a high trailer sample, and after     *)
(* the twelfth byte one more high sample: 109 samples.  Data is low before *)
(* the first clock pulse and high when the write returns.                  *)
(***************************************************************************)
C6_ReceiverSamples ==
    (InWriteCall /\ nfail = 0) =>
        /\ nsamples <= 109
        /\ nsamples >= 1 => lastSample = WireSample(msg, nsamples)
        /\ nops \in {1, 2} => (~data /\ nsamples = 0)
        /\ pc = "idle" => (nsamples = 109 /\ data)

C6_Witness ==
    /\ Returned
    /\ nfail = 0
    /\ channel_values = <<0, 0, 0, 1024, 1>>
    /\ nsamples = 109
    /\ lastSample

(***************************************************************************)
(* C7: when every pin operation since construction began has taken effect, *)
(* data and clock are both high whenever the driver is idle: after init    *)
(* and after every write or write_normalized, whatever calls came before.  *)
(***************************************************************************)
C7_IdleLinesHigh == (pc = "idle" /\ ~everFailed) => (data /\ clk)

C7_Witness ==
    /\ pc = "idle"
    /\ ~everFailed
    /\ last_call.op = "write_normalized"
    /\ rgb_power_level = 15
    /\ data /\ clk

(***************************************************************************)
(* C8: once the driver exists both stored levels are in 0..15, and         *)
(* set_power_levels(r, c) stores r mod 16 and c mod 16 and returns         *)
(* normally: (0x1F, 0x2C) stores 0xF and 0xC.                              *)
(***************************************************************************)
C8_LevelsMasked ==
    pc \notin {"init_data", "init_clk", "dead"} =>
        /\ rgb_power_level \in 0 .. 15
        /\ cw_power_level \in 0 .. 15
        /\ last_call.op = "set_power_levels" =>
               /\ rgb_power_level = last_call.args[1] % 16
               /\ cw_power_level = last_call.args[2] % 16
               /\ ret = "unit"
               /\ last_call.args = <<31, 44>> =>
                      (rgb_power_level = 15 /\ cw_power_level = 12)

C8_Witness ==
    /\ pc = "idle"
    /\ last_call = [op |-> "set_power_levels", args |-> <<31, 44>>]
    /\ rgb_power_level = 15
    /\ cw_power_level = 12

(***************************************************************************)
(* C9: set_power_levels issues no pin operation and leaves both lines as   *)
(* they are; it changes the two stored levels only.  The stored levels     *)
(* change in no other step after construction, and a write builds byte 1   *)
(* from the levels stored when it is called: right after                   *)
(* set_power_levels(r, c), from r mod 16 and c mod 16.                     *)
(***************************************************************************)
C9_IsSetPowerLevels == pc = "idle" /\ pc' = "idle"

C9_IsWriteEntry == pc = "idle" /\ pc' = "start"

C9_Nibbles(m, v, r, c) ==
    /\ m[1] \div 16 = (IF RgbActive(v) THEN r ELSE 0)
    /\ m[1] % 16 = (IF CwActive(v) THEN c ELSE 0)

C9_SetPowerLevelsFrame ==
    [][ /\ C9_IsSetPowerLevels =>
              UNCHANGED <<data, clk, nops, lastOp, nfail, everFailed, nsamples,
                          lastSample, msg, channel_values, byteIdx, bitIdx,
                          clkLowIssued, npairs>>
        /\ (~C9_IsSetPowerLevels /\ pc \notin {"init_data", "init_clk"}) =>
              UNCHANGED <<rgb_power_level, cw_power_level>>
        /\ C9_IsWriteEntry =>
              /\ C9_Nibbles(msg', channel_values', rgb_power_level, cw_power_level)
              /\ last_call.op = "set_power_levels" =>
                     C9_Nibbles(msg', channel_values',
                                last_call.args[1] % 16, last_call.args[2] % 16)
      ]_vars

C9_Witness ==
    /\ pc = "stop_data"
    /\ last_call.op = "write"
    /\ channel_values = <<2000, 0, 0, 0, 256>>
    /\ rgb_power_level = 15
    /\ cw_power_level = 12
    /\ msg[1] = 252

(***************************************************************************)
(* C10: a pin operation that fails changes nothing but the line: init      *)
(* still issues data high, clock high and stores the default levels; a     *)
(* write still issues the 328 operations of the wire protocol with the     *)
(* same arguments; both return normally, and a write leaves the stored     *)
(* levels as they were.                                                    *)
(***************************************************************************)
C10_FailuresDiscardedState ==
    nfail > 0 =>
        /\ ret # "err"
        /\ pc # "dead"
        /\ last_call.op = "init" =>
               /\ nops = 1 => lastOp = Op("data", TRUE)
               /\ nops = 2 => lastOp = Op("clk", TRUE)
               /\ (pc = "idle") <=> (nops = 2)
               /\ pc = "idle" =>
                      (ret = "unit" /\ rgb_power_level = 2 /\ cw_power_level = 4)
        /\ InWriteCall =>
               /\ nops >= 1 => lastOp = WireOp(msg, nops)
               /\ (pc = "idle") <=> (nops = 328)
               /\ pc = "idle" => ret = "unit"

C10_FailuresDiscarded ==
    /\ []C10_FailuresDiscardedState
    /\ [][(nfail' > nfail /\ InWriteCall) =>
              UNCHANGED <<rgb_power_level, cw_power_level, msg>>]_vars

C10_Witness ==
    /\ Returned
    /\ nfail = MaxFail
    /\ nops = 328
    /\ ret = "unit"
    /\ ~data

(***************************************************************************)
(* C11: a write is history-independent.  Its frame is the frame its        *)
(* channel values and the stored levels determine, and its pin operations  *)
(* are those of that frame, whatever write (and mode) came before; a write *)
(* that repeats the channel values of the write before it, with no         *)
(* set_power_levels in between, builds the same frame again.               *)
(***************************************************************************)
C11_Frame(v, r, c) ==
    [k \in 0 .. 11 |->
        IF k = 0 THEN 192 + (IF RgbActive(v) THEN 8 ELSE 0)
                          + (IF CwActive(v) THEN 16 ELSE 0)
        ELSE IF k = 1 THEN (IF RgbActive(v) THEN 16 * r ELSE 0)
                           + (IF CwActive(v) THEN c ELSE 0)
        ELSE LET x == v[((k - 2) \div 2) + 1]
                 y == IF x > 1023 THEN 1023 ELSE x
             IN  IF k % 2 = 0 THEN y \div 256 ELSE y % 256]

C11_HistoryIndependent ==
    /\ [](InWriteCall =>
            /\ msg = C11_Frame(channel_values, rgb_power_level, cw_power_level)
            /\ nops >= 1 =>
                   lastOp = WireOp(C11_Frame(channel_values, rgb_power_level,
                                             cw_power_level), nops))
    /\ [][(pc = "idle" /\ pc' = "start" /\ InWriteCall
           /\ channel_values' = channel_values) => msg' = msg]_vars

C11_Witness ==
    /\ Returned
    /\ prev_addr = 216
    /\ channel_values = <<0, 0, 0, 0, 0>>
    /\ msg = [k \in 0 .. 11 |-> IF k = 0 THEN 192 ELSE 0]
    /\ rgb_power_level = 15
    /\ nops = 328

(***************************************************************************)
(* C12: from construction until the first set_power_levels the stored      *)
(* levels are rgb = 0x2 and cw = 0x4, so the power-level byte of a write   *)
(* is 0x20 in 3-channel mode, 0x04 in 2-channel mode, 0x24 in 5-channel    *)
(* mode; write([1023, 0, 800, 0, 0]) on a fresh driver builds the frame    *)
(* C8 20 03 FF 00 00 03 20 00 00 00 00.                                    *)
(***************************************************************************)
C12_ExampleFrame == [k \in 0 .. 11 |-> <<200, 32, 3, 255, 0, 0, 3, 32, 0, 0, 0, 0>>[k + 1]]

C12_Defaults ==
    (pc \notin {"init_data", "init_clk", "dead"} /\ ~configured) =>
        /\ rgb_power_level = 2
        /\ cw_power_level = 4
        /\ InWriteCall =>
               /\ msg[0] = 192 => msg[1] = 0
               /\ msg[0] = 200 => msg[1] = 32
               /\ msg[0] = 208 => msg[1] = 4
               /\ msg[0] = 216 => msg[1] = 36
               /\ channel_values = <<1023, 0, 800, 0, 0>> => msg = C12_ExampleFrame

C12_Witness ==
    /\ Returned
    /\ ~configured
    /\ prev_addr = 216
    /\ last_call = [op |-> "write", args |-> <<1023, 0, 800, 0, 0>>]
    /\ msg = C12_ExampleFrame

(***************************************************************************)
(* C13, as claimed: every write_normalized input outside [0.0, 1.0),       *)
(* negative ones included, scales to an integer outside [0, 1024) and the  *)
(* channel is encoded as 1023.                                             *)
(***************************************************************************)
NormDone == pc = "norm_done"

C13_Below0(x) == x[1] < 0

C13_AtLeast1(x) == x[1] >= x[2]

C13_Original ==
    NormDone =>
        \A i \in 0 .. 4 :
            (C13_Below0(last_call.args[i + 1]) \/ C13_AtLeast1(last_call.args[i + 1])) =>
                /\ channel_values[i + 1] \notin 0 .. 1023
                /\ msg[2 + 2 * i] = 3
                /\ msg[3 + 2 * i] = 255

(***************************************************************************)
(* C13, amended: an input of 1.0 or more scales to an integer of 1024 or   *)
(* more (at most 65535) and the channel is encoded as 1023; a negative     *)
(* input is cast to 0, the channel is encoded as 0 and counts as zero for  *)
(* the mode.  No input is rejected.                                        *)
(***************************************************************************)
C13_SaturatingCast ==
    NormDone =>
        /\ \A i \in 0 .. 4 :
               LET x == last_call.args[i + 1]
               IN  /\ C13_AtLeast1(x) =>
                          /\ channel_values[i + 1] \in 1024 .. 65535
                          /\ msg[2 + 2 * i] = 3
                          /\ msg[3 + 2 * i] = 255
                   /\ C13_Below0(x) =>
                          /\ channel_values[i + 1] = 0
                          /\ msg[2 + 2 * i] = 0
                          /\ msg[3 + 2 * i] = 0
        /\ (\A i \in 1 .. 5 : C13_Below0(last_call.args[i])) => msg[0] = 192

C13_Witness ==
    /\ NormDone
    /\ last_call.args = << <<0, 1>>, <<0, 1>>, <<0, 1>>, <<-1, 2>>, <<100, 1>> >>
    /\ channel_values = <<0, 0, 0, 0, 65535>>
    /\ msg[8] = 0 /\ msg[9] = 0
    /\ msg[10] = 3 /\ msg[11] = 255
    /\ msg[0] = 208

(***************************************************************************)
(* C14: for inputs in [0.0, 1.0), write_normalized(x) writes what          *)
(* write(floor(x[i] * 1024)) writes with the same stored levels: the same  *)
(* frame and the same sequence of pin operations.                          *)
(***************************************************************************)
C14_InUnitRange(xs) == \A i \in 1 .. 5 : xs[i][1] >= 0 /\ xs[i][1] < xs[i][2]

C14_Floor(xs) == [i \in 1 .. 5 |-> (xs[i][1] * 1024) \div xs[i][2]]

C14_NormalizedRoundTrip ==
    (last_call.op = "write_normalized" /\ C14_InUnitRange(last_call.args)) =>
        LET w == C14_Floor(last_call.args)
            f == BuildFrame(w, rgb_power_level, cw_power_level)
        IN  /\ channel_values = w
            /\ msg = f
            /\ nops >= 1 => lastOp = WireOp(f, nops)
            /\ (pc = "idle") <=> (nops = 328)

C14_Witness ==
    /\ Returned
    /\ last_call.op = "write_normalized"
    /\ last_call.args =
           << <<1023, 1024>>, <<3, 2048>>, <<2047, 2048>>, <<1, 1024>>, <<0, 1>> >>
    /\ channel_values = <<1023, 1, 1023, 1, 0>>
    /\ msg[0] = 216
    /\ nops = 328

(***************************************************************************)
(* C15: byte 0 of every frame is 0bDD0MMNNN with DD = 11, the bit between  *)
(* DD and MM 0 and NNN = 000; only the two MM bits vary.                   *)
(***************************************************************************)
C15_AddressLayout ==
    Encoded =>
        /\ msg[0] \div 64 = 3
        /\ (msg[0] \div 32) % 2 = 0
        /\ msg[0] % 8 = 0
        /\ msg[0] = 192 + 8 * ((msg[0] \div 8) % 4)

C15_Witness ==
    /\ Encoded
    /\ channel_values = <<0, 0, 0, 2000, 0>>
    /\ msg[0] = 208
    /\ (msg[0] \div 8) % 4 = 2

(***************************************************************************)
(* C16, as claimed: with bits numbered from 0 at the least significant     *)
(* bit, bit 4 of byte 0 is 0 in every frame.                               *)
(***************************************************************************)
C16_Bit(b, n) == (b \div (2 ^ n)) % 2

C16_MM(b) == 2 * C16_Bit(b, 4) + C16_Bit(b, 3)

C16_Original == Encoded => C16_Bit(msg[0], 4) = 0

(***************************************************************************)
(* C16, amended: the reserved bit of byte 0 is bit 5, and it is 0 in every *)
(* frame; the mode field MM is bits 4..3 and is 00 in standby, 01 in       *)
(* 3-channel, 10 in 2-channel and 11 in 5-channel mode.                    *)
(***************************************************************************)
C16_ReservedBit5 ==
    Encoded =>
        LET v == channel_values
        IN  /\ C16_Bit(msg[0], 5) = 0
            /\ C16_MM(msg[0]) = (IF RgbActive(v) THEN 1 ELSE 0)
                                + (IF CwActive(v) THEN 2 ELSE 0)

C16_Witness ==
    /\ Encoded
    /\ channel_values = <<0, 0, 0, 0, 1>>
    /\ C16_Bit(msg[0], 5) = 0
    /\ C16_Bit(msg[0], 4) = 1
    /\ C16_MM(msg[0]) = 2

(***************************************************************************)
(* C17: in a write that starts from idle and whose pin operations all take *)
(* effect, the data level changes while the clock is high at one point     *)
(* only, the high-to-low start condition; data bits and trailers change    *)
(* data while the clock is low, and the final data high changes nothing.   *)
(***************************************************************************)
C17_DataStableWhileClockHigh ==
    [][(InWriteCall' /\ nops' = nops + 1 /\ ~everFailed') =>
          /\ nops' = 1 => (data /\ ~data' /\ clk /\ clk')
          /\ (data' # data /\ clk) => nops' = 1
          /\ (data' # data /\ nops' > 1) => (~clk /\ ~clk')
          /\ nops' = 328 => (data /\ data')
      ]_vars

C17_Witness ==
    /\ InWriteCall
    /\ ~everFailed
    /\ nops = 1
    /\ lastOp = Op("data", FALSE)
    /\ ~data
    /\ clk

(***************************************************************************)
(* C18: no step of write or write_normalized changes rgb_power_level or    *)
(* cw_power_level, in any mode; when the write returns they are the levels *)
(* its frame was built from.                                               *)
(***************************************************************************)
C18_WriteKeepsLevels ==
    /\ [][InWriteCall' => UNCHANGED <<rgb_power_level, cw_power_level>>]_vars
    /\ [](Returned =>
            /\ RgbActive(channel_values) => msg[1] \div 16 = rgb_power_level
            /\ CwActive(channel_values) => msg[1] % 16 = cw_power_level)

C18_Witness ==
    /\ Returned
    /\ last_call.op = "write"
    /\ channel_values = <<0, 0, 0, 0, 0>>
    /\ msg[1] = 0
    /\ rgb_power_level = 15
    /\ cw_power_level = 12

(***************************************************************************)
(* C19: every write terminates, after exactly 328 pin operations, 109 of   *)
(* them clock-low / clock-high pairs, whatever the channel values, the     *)
(* mode, the stored levels and the failures of pin operations.             *)
(***************************************************************************)
C19_WriteTerminates ==
    /\ [](InWriteCall =>
            /\ nops <= 328
            /\ npairs <= 109
            /\ (pc = "idle") <=> (nops = 328)
            /\ pc = "idle" => (npairs = 109 /\ ret = "unit"))
    /\ (pc = "start") ~> (pc = "idle" /\ nops = 328 /\ npairs = 109)

C19_Witness ==
    /\ Returned
    /\ nfail = MaxFail
    /\ nops = 328
    /\ npairs = 109
    /\ nsamples < 109
    /\ channel_values = <<2000, 0, 0, 0, 256>>

====
